---- MODULE Spec2Model ----
(***************************************************************************)
(* Query translator of app/server/core/llm_processor.py: provider          *)
(* selection (generate_sql), the two provider variants                     *)
(* (generate_sql_with_openai, generate_sql_with_anthropic), the markdown   *)
(* fence clean-up of the provider's answer and format_schema_for_prompt.   *)
(*                                                                         *)
(* A Python str is a sequence of characters, each a TLA+ string.  An       *)
(* exception message is kept as the sequence of the pieces its f-string    *)
(* joins.                                                                  *)
(***************************************************************************)
EXTENDS Integers, Sequences, FiniteSets, TLC

VARIABLES
    env,          \* os.environ: variable name -> value, Unset when absent
    entry,        \* the function the caller calls
    request,      \* QueryRequest: [query, llm_provider]
    schema_info,  \* the schema handed to generate_sql
    pc,           \* position of the one synchronous call
    invoked,      \* provider variants entered, in order: [provider, query, schema]
    clients,      \* provider client constructors called, in order
    api_calls,    \* provider API calls made, in order: [provider, query, schema_description]
    caught,       \* str(e) of the exception a variant's except clause caught, or NoException
    outcome,      \* what the call gave its caller: nothing yet, a string or an exception
    content,      \* fence clean-up: the provider's answer
    fence,        \* fence clean-up: how the answer was wrapped
    body,         \* fence clean-up: the text inside the wrapping
    cleaner,      \* fence clean-up: the variant whose clean-up ran
    sql,          \* fence clean-up: the cleaned answer
    sql2,         \* fence clean-up: the cleaned answer, cleaned once more
    cpc,          \* fence clean-up: position
    schema,       \* schema formatting: the input
    formatted,    \* schema formatting: the returned string
    fpc           \* schema formatting: position

vars == <<env, entry, request, schema_info, pc, invoked, clients, api_calls, caught, outcome,
          content, fence, body, cleaner, sql, sql2, cpc, schema, formatted, fpc>>

callVars ==
    <<env, entry, request, schema_info, pc, invoked, clients, api_calls, caught, outcome>>
cleanVars == <<content, fence, body, cleaner, sql, sql2, cpc>>
formatVars == <<schema, formatted, fpc>>

----------------------------------------------------------------------------
(* Bounds of the model *)

\* longest body of a provider answer, in chunks of Chunks
MaxChunks == 4
\* most tables of a schema (there are three table names)
MaxTables == 2

----------------------------------------------------------------------------
(* Python str operations, on sequences of characters *)

\* whitespace characters a TLA+ string literal cannot hold, each as one atom
VT == "<U+000B>"
FS == "<U+001C>"
GS == "<U+001D>"
RS == "<U+001E>"
US == "<U+001F>"
NEL == "<U+0085>"
NBSP == "<U+00A0>"
UnicodeSpaces ==
    {"<U+1680>", "<U+2000>", "<U+2001>", "<U+2002>", "<U+2003>", "<U+2004>",
     "<U+2005>", "<U+2006>", "<U+2007>", "<U+2008>", "<U+2009>", "<U+200A>",
     "<U+2028>", "<U+2029>", "<U+202F>", "<U+205F>", "<U+3000>"}

\* the characters str.strip() removes from a str: those str.isspace() is true of
Whitespace ==
    {" ", "\t", "\n", VT, "\f", "\r", FS, GS, RS, US, NEL, NBSP} \cup UnicodeSpaces

RECURSIVE lstrip(_)
lstrip(s) ==
    IF s # <<>> /\ Head(s) \in Whitespace THEN lstrip(Tail(s)) ELSE s

RECURSIVE rstrip(_)
rstrip(s) ==
    IF s # <<>> /\ s[Len(s)] \in Whitespace
    THEN rstrip(SubSeq(s, 1, Len(s) - 1))
    ELSE s

strip(s) == rstrip(lstrip(s))

startswith(s, prefix) ==
    Len(s) >= Len(prefix) /\ SubSeq(s, 1, Len(prefix)) = prefix

endswith(s, suffix) ==
    Len(s) >= Len(suffix) /\ SubSeq(s, Len(s) - Len(suffix) + 1, Len(s)) = suffix

\* s[n:]
DropFirst(s, n) == SubSeq(s, n + 1, Len(s))

\* s[:-n]
DropLast(s, n) == SubSeq(s, 1, Len(s) - n)

\* s[-1]
Last(s) == s[Len(s)]

RECURSIVE join(_, _)
\* sep.join(parts)
join(sep, parts) ==
    IF parts = <<>> THEN <<>>
    ELSE IF Len(parts) = 1 THEN parts[1]
    ELSE parts[1] \o sep \o join(sep, Tail(parts))

Digit(d) ==
    CASE d = 0 -> "0" [] d = 1 -> "1" [] d = 2 -> "2" [] d = 3 -> "3"
      [] d = 4 -> "4" [] d = 5 -> "5" [] d = 6 -> "6" [] d = 7 -> "7"
      [] d = 8 -> "8" [] d = 9 -> "9"

RECURSIVE Decimal(_)
Decimal(n) ==
    IF n < 10 THEN <<Digit(n)>> ELSE Decimal(n \div 10) \o <<Digit(n % 10)>>

\* str(n) of an int, as an f-string renders it
IntToStr(n) == IF n < 0 THEN <<"-">> \o Decimal(0 - n) ELSE Decimal(n)

\* the backtick character (U+0060), which a TLA+ string literal cannot hold
BT == "<backtick>"
Fence3 == <<BT, BT, BT>>
FenceSql == <<BT, BT, BT, "s", "q", "l">>
NL == <<"\n">>

----------------------------------------------------------------------------
(* Fence clean-up of the provider answer *)

\* the same steps with the two opening markers tried in the other order
CleanGenericFirst(text) ==
    LET s0 == strip(text)
        s1 == IF startswith(s0, Fence3) THEN DropFirst(s0, 3) ELSE s0
        s2 == IF startswith(s1, FenceSql) THEN DropFirst(s1, 6) ELSE s1
        s3 == IF endswith(s2, Fence3) THEN DropLast(s2, 3) ELSE s2
    IN  strip(s3)

\* the same steps without the final strip()
CleanNoFinalStrip(text) ==
    LET s0 == strip(text)
        s1 == IF startswith(s0, FenceSql) THEN DropFirst(s0, 6) ELSE s0
        s2 == IF startswith(s1, Fence3) THEN DropFirst(s1, 3) ELSE s1
        s3 == IF endswith(s2, Fence3) THEN DropLast(s2, 3) ELSE s2
    IN  s3

\* generate_sql_with_openai, from response.choices[0].message.content to the return
CleanSqlOpenAI(text) ==
    LET s0 == strip(text)
        s1 == IF startswith(s0, FenceSql) THEN DropFirst(s0, 6) ELSE s0
        s2 == IF startswith(s1, Fence3) THEN DropFirst(s1, 3) ELSE s1
        s3 == IF endswith(s2, Fence3) THEN DropLast(s2, 3) ELSE s2
    IN  strip(s3)

\* generate_sql_with_anthropic, from response.content[0].text to the return
CleanSqlAnthropic(text) ==
    LET s0 == strip(text)
        s1 == IF startswith(s0, FenceSql) THEN DropFirst(s0, 6) ELSE s0
        s2 == IF startswith(s1, Fence3) THEN DropFirst(s1, 3) ELSE s1
        s3 == IF endswith(s2, Fence3) THEN DropLast(s2, 3) ELSE s2
    IN  strip(s3)

CleanSql(provider, text) ==
    IF provider = "openai" THEN CleanSqlOpenAI(text) ELSE CleanSqlAnthropic(text)

----------------------------------------------------------------------------
(* format_schema_for_prompt *)

\* A mapping in iteration order is a sequence of entries with distinct keys;
\* has_tables of a schema_info says whether it holds the key 'tables'.
InjSeqs(S, n) ==
    {f \in [1..n -> S] : \A i, j \in 1..n : i # j => f[i] # f[j]}

TableNames == {<<"u", "s", "e", "r", "s">>, <<"p", "r", "o", "d">>, <<"t">>}
ColNames == {<<"i", "d">>, <<"n", "a", "m", "e">>}
ColTypes == {<<"I", "N", "T">>, <<"T", "E", "X", "T">>}
RowCounts == {0, 100}

\* table_info['columns']: every choice and order of the column names
ColumnMaps ==
    UNION {{[i \in 1..n |-> [name |-> ns[i], type |-> ts[i]]] :
                ns \in InjSeqs(ColNames, n), ts \in [1..n -> ColTypes]} :
           n \in 0..Cardinality(ColNames)}

TableInfos == [columns : ColumnMaps, row_count : RowCounts]

LitTable == <<"T", "a", "b", "l", "e", ":", " ">>
LitColumns == <<"C", "o", "l", "u", "m", "n", "s", ":">>
LitRowCount == <<"R", "o", "w", " ", "c", "o", "u", "n", "t", ":", " ">>

\* f"  - {col_name} ({col_type})"
ColumnLine(c) == <<" ", " ", "-", " ">> \o c.name \o <<" ", "(">> \o c.type \o <<")">>

RECURSIVE ColumnLines(_)
ColumnLines(columns) ==
    IF columns = <<>> THEN <<>>
    ELSE <<ColumnLine(Head(columns))>> \o ColumnLines(Tail(columns))

\* the lines one pass of the outer loop appends, columns last to first
TableLinesReversed(t) ==
    <<LitTable \o t.name, LitColumns>>
        \o ColumnLines([i \in 1..Len(t.info.columns) |->
                            t.info.columns[Len(t.info.columns) + 1 - i]])
        \o <<LitRowCount \o IntToStr(t.info.row_count), <<>> >>

\* the lines one pass of the outer loop appends, the row count only when it is not 0
TableLinesSkipZeroRows(t) ==
    <<LitTable \o t.name, LitColumns>>
        \o ColumnLines(t.info.columns)
        \o (IF t.info.row_count = 0 THEN <<>>
            ELSE <<LitRowCount \o IntToStr(t.info.row_count)>>)
        \o << <<>> >>

\* the lines one pass of the outer loop appends
TableLines(t) ==
    <<LitTable \o t.name, LitColumns>>
        \o ColumnLines(t.info.columns)
        \o <<LitRowCount \o IntToStr(t.info.row_count), <<>> >>

RECURSIVE SchemaLines(_)
SchemaLines(tables) ==
    IF tables = <<>> THEN <<>>
    ELSE TableLines(Head(tables)) \o SchemaLines(Tail(tables))

\* schema_info.get('tables', {})
GetTables(s) == IF s.has_tables THEN s.tables ELSE <<>>

format_schema_for_prompt(s) == join(NL, SchemaLines(GetTables(s)))

----------------------------------------------------------------------------
(* Environment and provider selection *)

\* os.environ.get(name) of a variable that is not set: None
Unset == "<unset>"

CredentialNames ==
    {"OPENAI_API_KEY", "AWS_ACCESS_KEY_ID", "AWS_ACCESS_KEY", "AWS_SECRET_ACCESS_KEY"}
EnvNames == CredentialNames \cup {"ANTHROPIC_MODEL"}

\* a credential variable: absent, empty, set
EnvValues == {Unset, "", "key"}

\* ANTHROPIC_MODEL: absent, empty, a model of the caller's choice
ModelValues == {Unset, "", "us.anthropic.claude-3-opus-20240229-v1:0"}

\* the environments a call runs in
Environments ==
    {[n \in EnvNames |-> IF n = "ANTHROPIC_MODEL" THEN m ELSE c[n]] :
        c \in [CredentialNames -> EnvValues], m \in ModelValues}

\* os.environ.get(name, default): the default only when the variable is not set
environ_get(e, name, default) == IF e[name] = Unset THEN default ELSE e[name]

\* Python truth of a value os.environ.get returns
Truthy(v) == v # Unset /\ v # ""

\* a or b
PyOr(a, b) == IF Truthy(a) THEN a ELSE b

\* the check without the AWS_ACCESS_KEY alias
BedrockIdOnly(e) ==
    Truthy(e["AWS_ACCESS_KEY_ID"]) /\ Truthy(e["AWS_SECRET_ACCESS_KEY"])

has_bedrock_credentials(e) ==
    LET aws_access_key == PyOr(e["AWS_ACCESS_KEY_ID"], e["AWS_ACCESS_KEY"])
        aws_secret_key == e["AWS_SECRET_ACCESS_KEY"]
    IN  Truthy(aws_access_key) /\ Truthy(aws_secret_key)

\* the preference tried before the credentials
SelectPreferenceFirst(e, llm_provider) ==
    IF llm_provider = "openai" THEN "openai"
    ELSE IF llm_provider = "anthropic" THEN "anthropic"
    ELSE IF Truthy(e["OPENAI_API_KEY"]) THEN "openai"
    ELSE "anthropic"

\* the last branch defaulting to OpenAI
SelectDefaultOpenAI(e, llm_provider) ==
    IF Truthy(e["OPENAI_API_KEY"]) THEN "openai"
    ELSE IF has_bedrock_credentials(e) THEN "anthropic"
    ELSE IF llm_provider = "anthropic" THEN "anthropic"
    ELSE "openai"

\* the branch of generate_sql taken
SelectProvider(e, llm_provider) ==
    IF Truthy(e["OPENAI_API_KEY"]) THEN "openai"
    ELSE IF has_bedrock_credentials(e) THEN "anthropic"
    ELSE IF llm_provider = "openai" THEN "openai"
    ELSE "anthropic"

----------------------------------------------------------------------------
(* One call of generate_sql *)

\* values of request.llm_provider: the two the data model names, and another
Preferences == {"openai", "anthropic", "OpenAI"}
Queries == {"Show all users", "Show all orders"}

\* schemas handed to generate_sql
CallSchemas ==
    {[has_tables |-> TRUE, tables |-> <<>>],
     [has_tables |-> TRUE,
      tables |-> <<[name |-> <<"t">>,
                    info |-> [columns |-> <<[name |-> <<"i", "d">>,
                                             type |-> <<"I", "N", "T">>]>>,
                              row_count |-> 100]]>>]}

\* str(e) of the exceptions a client constructor or an API call raises
SdkErrors == {"API Error", "Connection error."}

Select1 == <<"S", "E", "L", "E", "C", "T", " ", "1">>

\* what the provider answers: the first text segment, or None in its place
Responses ==
    {[none |-> FALSE, text |-> Select1],
     [none |-> FALSE, text |-> FenceSql \o NL \o Select1 \o NL \o Fence3],
     [none |-> FALSE, text |-> Fence3 \o NL \o Select1 \o NL \o Fence3 \o NL],
     [none |-> FALSE, text |-> <<"\f">> \o Select1 \o <<NBSP, "\f">>],
     [none |-> TRUE, text |-> <<>>]}

MsgOpenAI == "Error generating SQL with OpenAI: "
MsgAnthropic == "Error generating SQL with Anthropic: "
MsgNoOpenAIKey == "OPENAI_API_KEY environment variable not set"
MsgNoAwsCredentials ==
    "AWS credentials not set (AWS_ACCESS_KEY_ID/AWS_ACCESS_KEY and AWS_SECRET_ACCESS_KEY)"
MsgNoneStrip == "'NoneType' object has no attribute 'strip'"
DEFAULT_BEDROCK_MODEL == "us.anthropic.claude-3-haiku-20240307-v1:0"

\* the except clause with the original text left out
WrapOpenAINoCause(cause) == <<MsgOpenAI>>

\* except Exception as e: raise Exception(f"Error generating SQL with OpenAI: {str(e)}")
WrapOpenAI(cause) == <<MsgOpenAI, cause>>

\* except Exception as e: raise Exception(f"Error generating SQL with Anthropic: {str(e)}")
WrapAnthropic(cause) == <<MsgAnthropic, cause>>

\* the key test taking an empty value for a key
NoOpenAIKeyUnsetOnly(e) == e["OPENAI_API_KEY"] = Unset

\* if not api_key
NoOpenAIKey(e) == ~Truthy(e["OPENAI_API_KEY"])

\* the credential test of the variant without the AWS_ACCESS_KEY alias
NoAwsCredentialsIdOnly(e) ==
    ~Truthy(e["AWS_ACCESS_KEY_ID"]) \/ ~Truthy(e["AWS_SECRET_ACCESS_KEY"])

\* if not aws_access_key or not aws_secret_key
NoAwsCredentials(e) ==
    LET aws_access_key == PyOr(e["AWS_ACCESS_KEY_ID"], e["AWS_ACCESS_KEY"])
        aws_secret_key == e["AWS_SECRET_ACCESS_KEY"]
    IN  ~Truthy(aws_access_key) \/ ~Truthy(aws_secret_key)

Invocation(provider) ==
    [provider |-> provider, query |-> request.query, schema |-> schema_info]

\* no exception caught
NoException == "<no exception>"

\* the message of the exception a variant's except clause raises
Wrap(provider, cause) ==
    IF provider = "openai" THEN WrapOpenAI(cause) ELSE WrapAnthropic(cause)

\* a failed OpenAI variant followed by a try of the Anthropic variant
PropagateWithFallback(provider, message) ==
    IF provider = "openai" /\ Len(invoked) = 1
    THEN /\ pc' = "anthropic_credentials"
         /\ invoked' = Append(invoked, [invoked[1] EXCEPT !.provider = "anthropic"])
         /\ outcome' = outcome
    ELSE /\ pc' = "done"
         /\ invoked' = invoked
         /\ outcome' = [kind |-> "raise", value |-> message]

\* an exception leaving a variant: generate_sql has no handler, the caller gets it
Propagate(provider, message) ==
    /\ pc' = "done"
    /\ invoked' = invoked
    /\ outcome' = [kind |-> "raise", value |-> message]

\* an exception inside a variant's try: caught, wrapped and raised again
Raise(provider, cause) ==
    /\ caught' = cause
    /\ Propagate(provider, Wrap(provider, cause))

\* return sql.strip(), handed on by generate_sql's return
Return(value) ==
    /\ pc' = "done"
    /\ invoked' = invoked
    /\ caught' = caught
    /\ outcome' = [kind |-> "return", value |-> value]

\* the variant goes on to its next statement
Goto(label) ==
    /\ pc' = label
    /\ UNCHANGED <<invoked, caught, outcome>>

\* generate_sql: the selection and the call of the selected variant
generate_sql ==
    /\ pc = "start"
    /\ entry = "generate_sql"
    /\ LET provider == SelectProvider(env, request.llm_provider)
       IN  /\ invoked' = Append(invoked, Invocation(provider))
           /\ pc' = IF provider = "openai" THEN "openai_key"
                    ELSE "anthropic_credentials"
    /\ UNCHANGED <<env, entry, request, schema_info, clients, api_calls, caught, outcome>>
    /\ UNCHANGED <<cleanVars, formatVars>>

\* a variant called by name, as the tests call it
call_variant ==
    /\ pc = "start"
    /\ entry # "generate_sql"
    /\ LET provider == IF entry = "generate_sql_with_openai" THEN "openai"
                        ELSE "anthropic"
       IN  /\ invoked' = Append(invoked, Invocation(provider))
           /\ pc' = IF provider = "openai" THEN "openai_key"
                    ELSE "anthropic_credentials"
    /\ UNCHANGED <<env, entry, request, schema_info, clients, api_calls, caught, outcome>>
    /\ UNCHANGED <<cleanVars, formatVars>>

\* generate_sql_with_openai: the API key read and tested
openai_key ==
    /\ pc = "openai_key"
    /\ IF NoOpenAIKey(env)
       THEN Raise("openai", MsgNoOpenAIKey)
       ELSE Goto("openai_client")
    /\ UNCHANGED <<env, entry, request, schema_info, clients, api_calls>>
    /\ UNCHANGED <<cleanVars, formatVars>>

\* generate_sql_with_openai: client = OpenAI(api_key=api_key)
openai_client ==
    /\ pc = "openai_client"
    /\ clients' = Append(clients, "openai")
    /\ \/ Goto("openai_create")
       \/ \E e \in SdkErrors : Raise("openai", e)
    /\ UNCHANGED <<env, entry, request, schema_info, api_calls>>
    /\ UNCHANGED <<cleanVars, formatVars>>

\* generate_sql_with_openai: the prompt, the API call and the clean-up of its answer
openai_create ==
    /\ pc = "openai_create"
    /\ api_calls' = Append(api_calls,
            [provider |-> "openai", model |-> "gpt-4.1-mini",
             query |-> Last(invoked).query,
             schema_description |-> format_schema_for_prompt(Last(invoked).schema)])
    /\ \/ \E e \in SdkErrors : Raise("openai", e)
       \/ \E r \in Responses :
            IF r.none
            THEN Raise("openai", MsgNoneStrip)
            ELSE Return(CleanSqlOpenAI(r.text))
    /\ UNCHANGED <<env, entry, request, schema_info, clients>>
    /\ UNCHANGED <<cleanVars, formatVars>>

\* generate_sql_with_anthropic: the credentials read and tested
anthropic_credentials ==
    /\ pc = "anthropic_credentials"
    /\ IF NoAwsCredentials(env)
       THEN Raise("anthropic", MsgNoAwsCredentials)
       ELSE Goto("anthropic_client")
    /\ UNCHANGED <<env, entry, request, schema_info, clients, api_calls>>
    /\ UNCHANGED <<cleanVars, formatVars>>

\* generate_sql_with_anthropic: client = AnthropicBedrock(...)
anthropic_client ==
    /\ pc = "anthropic_client"
    /\ clients' = Append(clients, "anthropic")
    /\ \/ Goto("anthropic_create")
       \/ \E e \in SdkErrors : Raise("anthropic", e)
    /\ UNCHANGED <<env, entry, request, schema_info, api_calls>>
    /\ UNCHANGED <<cleanVars, formatVars>>

\* generate_sql_with_anthropic: the prompt, the API call and the clean-up of its answer
anthropic_create ==
    /\ pc = "anthropic_create"
    /\ api_calls' = Append(api_calls,
            [provider |-> "anthropic",
             model |-> environ_get(env, "ANTHROPIC_MODEL", DEFAULT_BEDROCK_MODEL),
             query |-> Last(invoked).query,
             schema_description |-> format_schema_for_prompt(Last(invoked).schema)])
    /\ \/ \E e \in SdkErrors : Raise("anthropic", e)
       \/ \E r \in Responses :
            IF r.none
            THEN Raise("anthropic", MsgNoneStrip)
            ELSE Return(CleanSqlAnthropic(r.text))
    /\ UNCHANGED <<env, entry, request, schema_info, clients>>
    /\ UNCHANGED <<cleanVars, formatVars>>

Entries == {"generate_sql", "generate_sql_with_openai", "generate_sql_with_anthropic"}

InitCall ==
    /\ env \in Environments
    /\ entry \in Entries
    /\ request \in [query : Queries, llm_provider : Preferences]
    /\ schema_info \in CallSchemas
    /\ pc = "start"
    /\ invoked = <<>>
    /\ clients = <<>>
    /\ api_calls = <<>>
    /\ caught = NoException
    /\ outcome = [kind |-> "pending", value |-> <<>>]

\* the call's variables while the fence clean-up or the formatting is looked at alone
IdleCall ==
    /\ env = [n \in EnvNames |-> Unset]
    /\ entry = "generate_sql"
    /\ request = [query |-> "Show all users", llm_provider |-> "openai"]
    /\ schema_info = [has_tables |-> TRUE, tables |-> <<>>]
    /\ pc = "start"
    /\ invoked = <<>>
    /\ clients = <<>>
    /\ api_calls = <<>>
    /\ caught = NoException
    /\ outcome = [kind |-> "pending", value |-> <<>>]

----------------------------------------------------------------------------
(* The fence clean-up alone, on answers of every shape *)

Chunks == {<<BT>>, Fence3, <<"s", "q", "l">>, <<"\n">>, <<" ">>, <<"\f">>, <<"S">>}

RECURSIVE Flatten(_)
Flatten(cs) == IF cs = <<>> THEN <<>> ELSE Head(cs) \o Flatten(Tail(cs))

Texts == {Flatten(cs) : cs \in UNION {[1..n -> Chunks] : n \in 0..MaxChunks}}

FenceKinds == {"none", "tagged", "untagged"}

\* the answer a provider gives for a body: bare, or in a fenced code block
Fenced(kind, b) ==
    CASE kind = "none" -> b
      [] kind = "tagged" -> FenceSql \o NL \o b \o NL \o Fence3
      [] kind = "untagged" -> Fence3 \o NL \o b \o NL \o Fence3

InitClean ==
    /\ body \in Texts
    /\ fence \in FenceKinds
    /\ content = Fenced(fence, body)
    /\ cleaner = "nobody"
    /\ sql = <<>>
    /\ sql2 = <<>>
    /\ cpc = "answered"

IdleClean ==
    /\ body = <<>>
    /\ fence = "none"
    /\ content = <<>>
    /\ cleaner = "nobody"
    /\ sql = <<>>
    /\ sql2 = <<>>
    /\ cpc = "answered"

\* the clean-up of generate_sql_with_openai on the answer
clean_openai ==
    /\ cpc = "answered"
    /\ sql' = CleanSqlOpenAI(content)
    /\ cleaner' = "openai"
    /\ cpc' = "cleaned"
    /\ UNCHANGED <<content, fence, body, sql2>>
    /\ UNCHANGED <<callVars, formatVars>>

\* the clean-up of generate_sql_with_anthropic on the answer
clean_anthropic ==
    /\ cpc = "answered"
    /\ sql' = CleanSqlAnthropic(content)
    /\ cleaner' = "anthropic"
    /\ cpc' = "cleaned"
    /\ UNCHANGED <<content, fence, body, sql2>>
    /\ UNCHANGED <<callVars, formatVars>>

\* the same variant's clean-up on what it returned
clean_again ==
    /\ cpc = "cleaned"
    /\ sql2' = CleanSql(cleaner, sql)
    /\ cpc' = "recleaned"
    /\ UNCHANGED <<content, fence, body, cleaner, sql>>
    /\ UNCHANGED <<callVars, formatVars>>

----------------------------------------------------------------------------
(* format_schema_for_prompt alone, on every schema of the bounds *)

\* a schema_info dict with no table yet; has_tables is whether it holds the key 'tables'
InitFormat ==
    /\ schema \in {[has_tables |-> h, tables |-> <<>>] : h \in BOOLEAN}
    /\ formatted = <<>>
    /\ fpc = "ready"

\* the caller's schema_info['tables'][name] = table_info, of a name not yet in the mapping
add_table ==
    /\ fpc = "ready"
    /\ schema.has_tables
    /\ Len(schema.tables) < MaxTables
    /\ \E name \in TableNames, info \in TableInfos :
         /\ \A i \in 1..Len(schema.tables) : schema.tables[i].name # name
         /\ schema' = [schema EXCEPT
                          !.tables = Append(@, [name |-> name, info |-> info])]
    /\ UNCHANGED <<formatted, fpc>>
    /\ UNCHANGED <<callVars, cleanVars>>

IdleFormat ==
    /\ schema = [has_tables |-> TRUE, tables |-> <<>>]
    /\ formatted = <<>>
    /\ fpc = "ready"

format_schema ==
    /\ fpc = "ready"
    /\ formatted' = format_schema_for_prompt(schema)
    /\ fpc' = "formatted"
    /\ UNCHANGED schema
    /\ UNCHANGED <<callVars, cleanVars>>

----------------------------------------------------------------------------
(* Specifications *)

Init == InitCall /\ IdleClean /\ IdleFormat

Next ==
    \/ generate_sql
    \/ call_variant
    \/ openai_key
    \/ openai_client
    \/ openai_create
    \/ anthropic_credentials
    \/ anthropic_client
    \/ anthropic_create

Spec == Init /\ [][Next]_vars

InitOfClean == IdleCall /\ InitClean /\ IdleFormat

NextOfClean ==
    \/ clean_openai
    \/ clean_anthropic
    \/ clean_again

SpecClean == InitOfClean /\ [][NextOfClean]_vars

InitOfFormat == IdleCall /\ IdleClean /\ InitFormat

NextOfFormat ==
    \/ add_table
    \/ format_schema

SpecFormat == InitOfFormat /\ [][NextOfFormat]_vars

----------------------------------------------------------------------------
(* Properties of one call of generate_sql, checked under Spec *)

ViaGenerateSql == entry = "generate_sql"
Called == pc # "start"
Done == pc = "done"

\* a value that is set and not empty
NonEmpty(v) == v \notin {Unset, ""}

OpenAIKeyPresent == NonEmpty(env["OPENAI_API_KEY"])

BedrockPairPresent ==
    /\ NonEmpty(env["AWS_ACCESS_KEY_ID"]) \/ NonEmpty(env["AWS_ACCESS_KEY"])
    /\ NonEmpty(env["AWS_SECRET_ACCESS_KEY"])

\* exactly the named variant was entered, once, with the request's query and the schema
OnlyInvoked(provider) ==
    /\ invoked = <<[provider |-> provider, query |-> request.query,
                    schema |-> schema_info]>>
    /\ \A i \in 1..Len(clients) : clients[i] = provider
    /\ \A i \in 1..Len(api_calls) :
         /\ api_calls[i].provider = provider
         /\ api_calls[i].query = request.query

\* the caller has the variant's result: its string, or the error of that variant
HasResultOf(provider) ==
    \/ outcome.kind = "return"
    \/ /\ outcome.kind = "raise"
       /\ outcome.value[1] = (IF provider = "openai" THEN MsgOpenAI ELSE MsgAnthropic)

\* C1: with OPENAI_API_KEY set and not empty, generate_sql enters the OpenAI
\* variant with the request's query and the schema and hands on its result,
\* whatever request.llm_provider is and whether or not the Bedrock pair is
\* there; the Anthropic variant is not entered.
C1_OpenAIKeyWins ==
    (ViaGenerateSql /\ OpenAIKeyPresent /\ Called) =>
        /\ OnlyInvoked("openai")
        /\ Done => HasResultOf("openai")

C1_Witness ==
    /\ ViaGenerateSql /\ Done
    /\ OpenAIKeyPresent /\ BedrockPairPresent
    /\ request.llm_provider = "anthropic"
    /\ invoked[1].provider = "openai"
    /\ outcome.kind = "return"

\* C2: with OPENAI_API_KEY absent or empty and the Bedrock pair present,
\* generate_sql enters the Anthropic variant and hands on its result, whatever
\* request.llm_provider is, "openai" included; the OpenAI variant is not entered.
C2_BedrockSecond ==
    (ViaGenerateSql /\ ~OpenAIKeyPresent /\ BedrockPairPresent /\ Called) =>
        /\ OnlyInvoked("anthropic")
        /\ Done => HasResultOf("anthropic")

C2_Witness ==
    /\ ViaGenerateSql /\ Done
    /\ env["OPENAI_API_KEY"] = ""
    /\ env["AWS_ACCESS_KEY_ID"] = Unset /\ NonEmpty(env["AWS_ACCESS_KEY"])
    /\ NonEmpty(env["AWS_SECRET_ACCESS_KEY"])
    /\ request.llm_provider = "openai"
    /\ invoked[1].provider = "anthropic"
    /\ outcome.kind = "return"

\* C3: with neither credential set present, generate_sql follows the
\* preference: "openai" enters the OpenAI variant, every other value the
\* Anthropic variant.
C3_PreferenceLast ==
    (ViaGenerateSql /\ ~OpenAIKeyPresent /\ ~BedrockPairPresent /\ Called) =>
        IF request.llm_provider = "openai"
        THEN OnlyInvoked("openai")
        ELSE OnlyInvoked("anthropic")

C3_Witness ==
    /\ ViaGenerateSql /\ Done
    /\ ~OpenAIKeyPresent /\ ~BedrockPairPresent
    /\ request.llm_provider = "OpenAI"
    /\ invoked[1].provider = "anthropic"

\* C4: a call of generate_sql enters exactly one variant, exactly once; when
\* that variant fails no other variant is entered, no client is built and no
\* API call is made twice, and the caller gets the failure of that variant.
C4_OneVariantNoFallback ==
    ViaGenerateSql =>
        /\ Len(invoked) = (IF Called THEN 1 ELSE 0)
        /\ Len(clients) <= 1 /\ Len(api_calls) <= 1
        /\ Called => OnlyInvoked(invoked[1].provider)
        /\ caught # NoException =>
             /\ Done
             /\ outcome.kind = "raise"
             /\ outcome.value = Wrap(invoked[1].provider, caught)

C4_Witness ==
    /\ ViaGenerateSql /\ Done
    /\ invoked[1].provider = "openai"
    /\ api_calls # <<>>
    /\ caught \in SdkErrors
    /\ outcome.kind = "raise"

\* C5: when a variant's client construction or API call raises, the variant
\* raises and returns no string; the message is "Error generating SQL with
\* OpenAI: " or "Error generating SQL with Anthropic: ", by the variant,
\* followed by the text of the exception that was raised.
C5_ErrorWrapped ==
    caught # NoException =>
        /\ Done
        /\ outcome.kind = "raise"
        /\ outcome.value =
             <<IF invoked[1].provider = "openai"
               THEN "Error generating SQL with OpenAI: "
               ELSE "Error generating SQL with Anthropic: ",
               caught>>

C5_Witness ==
    /\ Done
    /\ invoked[1].provider = "openai"
    /\ clients = <<"openai">> /\ api_calls = <<>>
    /\ caught = "Connection error."
    /\ outcome = [kind |-> "raise",
                  value |-> <<"Error generating SQL with OpenAI: ",
                              "Connection error.">>]

\* a piece of the message holds the text
Mentions(message, text) == \E i \in 1..Len(message) : message[i] = text

\* C6: a variant entered without its credentials fails with a configuration
\* error before any client is built or any API call is made: the OpenAI
\* variant when OPENAI_API_KEY is absent or empty, the Anthropic variant when
\* the access key (under both names) or AWS_SECRET_ACCESS_KEY is absent or empty.
C6_MissingCredentials ==
    /\ (Called /\ invoked[1].provider = "openai" /\ ~OpenAIKeyPresent) =>
          /\ clients = <<>> /\ api_calls = <<>>
          /\ pc \in {"openai_key", "done"}
          /\ Done =>
               /\ outcome.kind = "raise"
               /\ Mentions(outcome.value, "OPENAI_API_KEY environment variable not set")
    /\ (Called /\ invoked[1].provider = "anthropic" /\ ~BedrockPairPresent) =>
          /\ clients = <<>> /\ api_calls = <<>>
          /\ pc \in {"anthropic_credentials", "done"}
          /\ Done =>
               /\ outcome.kind = "raise"
               /\ Mentions(outcome.value, MsgNoAwsCredentials)

C6_Witness ==
    /\ Done
    /\ entry = "generate_sql_with_openai"
    /\ env["OPENAI_API_KEY"] = ""
    /\ BedrockPairPresent
    /\ outcome.kind = "raise"
    /\ clients = <<>>

\* the texts of the two missing-credential errors
MissingCredentialTexts ==
    {"OPENAI_API_KEY environment variable not set",
     "AWS credentials not set (AWS_ACCESS_KEY_ID/AWS_ACCESS_KEY and AWS_SECRET_ACCESS_KEY)"}

\* the missing-credential error of the provider the preference names, as the
\* caller of generate_sql gets it
PreferredMissingCredentialError ==
    IF request.llm_provider = "openai"
    THEN <<"Error generating SQL with OpenAI: ",
           "OPENAI_API_KEY environment variable not set">>
    ELSE <<"Error generating SQL with Anthropic: ",
           "AWS credentials not set (AWS_ACCESS_KEY_ID/AWS_ACCESS_KEY and AWS_SECRET_ACCESS_KEY)">>

\* C11: the selection and the variants agree on which credentials are there.
\* When generate_sql selects a provider because its credentials are present
\* (the OpenAI key, or else the Bedrock pair), the variant it enters never
\* fails with a missing-credential error.  When neither credential set is
\* present, generate_sql never returns a string and never builds a client or
\* makes an API call: the call ends with the missing-credential error of the
\* provider the preference names.
C11_CredentialNotionsAgree ==
    ViaGenerateSql =>
        /\ (OpenAIKeyPresent \/ BedrockPairPresent) =>
              /\ caught \notin MissingCredentialTexts
              /\ outcome.kind = "raise" =>
                    \A i \in 1..Len(outcome.value) :
                        outcome.value[i] \notin MissingCredentialTexts
        /\ (~OpenAIKeyPresent /\ ~BedrockPairPresent) =>
              /\ outcome.kind # "return"
              /\ clients = <<>> /\ api_calls = <<>>
              /\ pc \in {"start", "openai_key", "anthropic_credentials", "done"}
              /\ Done => outcome = [kind |-> "raise",
                                    value |-> PreferredMissingCredentialError]

C11_Witness ==
    /\ ViaGenerateSql /\ Done
    /\ env["OPENAI_API_KEY"] = ""
    /\ NonEmpty(env["AWS_ACCESS_KEY_ID"]) /\ NonEmpty(env["AWS_ACCESS_KEY"])
    /\ env["AWS_SECRET_ACCESS_KEY"] = Unset
    /\ request.llm_provider = "OpenAI"
    /\ invoked[1].provider = "anthropic"
    /\ api_calls = <<>>
    /\ outcome = [kind |-> "raise", value |-> PreferredMissingCredentialError]

----------------------------------------------------------------------------
(* Properties of the fence clean-up, checked under SpecClean *)

HasNoBacktick(s) == \A i \in 1..Len(s) : s[i] # BT

\* no backtick, and no whitespace at either end
PlainBody(s) ==
    /\ HasNoBacktick(s)
    /\ s # <<>> => (s[1] \notin Whitespace /\ s[Len(s)] \notin Whitespace)

\* the cleaned answer still begins or ends with a fence marker
FenceRemains(s) == startswith(s, Fence3) \/ endswith(s, Fence3)

\* C7 as stated: cleaning an already cleaned answer returns it unchanged,
\* for every answer.
C7_IdempotentOnEveryAnswer ==
    cpc = "recleaned" => sql2 = sql

\* C7, amended: cleaning an already cleaned answer returns it unchanged
\* exactly when the cleaned answer neither begins nor ends with three
\* backticks; a cleaned answer that does is changed by the second cleaning.
C7_IdempotentUnlessFenceRemains ==
    cpc = "recleaned" => (sql2 = sql <=> ~FenceRemains(sql))

\* a fenced answer whose body holds backticks of its own, cleaned twice
C7_Witness ==
    /\ cpc = "recleaned"
    /\ fence = "tagged"
    /\ body = <<BT, "S", BT>>
    /\ ~FenceRemains(sql)
    /\ sql = body
    /\ sql2 = sql

\* C8: for a body with no backtick and no whitespace at either end, both
\* variants return exactly the body when the answer is the body alone, the
\* body in a fence tagged sql, or the body in an untagged fence.
C8_BodyReturned ==
    (cpc # "answered" /\ PlainBody(body)) => sql = body

C8_Witness ==
    /\ cpc = "cleaned"
    /\ cleaner = "anthropic"
    /\ fence = "untagged"
    /\ body = <<"s", "q", "l", " ", "S">>
    /\ content = Fence3 \o NL \o body \o NL \o Fence3
    /\ sql = body

----------------------------------------------------------------------------
(* Properties of format_schema_for_prompt, checked under SpecFormat *)

RECURSIVE SplitLines(_)
\* text.split("\n")
SplitLines(text) ==
    IF \A i \in 1..Len(text) : text[i] # "\n" THEN <<text>>
    ELSE LET k == CHOOSE i \in 1..Len(text) :
                    text[i] = "\n" /\ \A j \in 1..(i - 1) : text[j] # "\n"
         IN  <<SubSeq(text, 1, k - 1)>> \o SplitLines(SubSeq(text, k + 1, Len(text)))

\* how many of the lines start with the prefix
CountStarting(lines, prefix) ==
    Cardinality({i \in 1..Len(lines) : startswith(lines[i], prefix)})

\* the tables of the schema
TablesOf(s) == IF s.has_tables THEN s.tables ELSE <<>>

\* C9: for a schema with N tables the returned string holds exactly N
\* "Table:" headers and exactly N "Row count:" lines; for N = 0 it is empty.
C9_HeaderCounts ==
    fpc = "formatted" =>
        LET n == Len(TablesOf(schema))
            lines == SplitLines(formatted)
        IN  /\ CountStarting(lines, <<"T", "a", "b", "l", "e", ":">>) = n
            /\ CountStarting(lines, <<"R", "o", "w", " ", "c", "o", "u", "n", "t", ":">>) = n
            /\ n = 0 => formatted = <<>>

C9_Witness ==
    /\ fpc = "formatted"
    /\ Len(TablesOf(schema)) = 2
    /\ schema.tables[1].info.columns = <<>>
    /\ schema.tables[1].info.row_count = 0
    /\ Len(schema.tables[2].info.columns) = 2
    /\ CountStarting(SplitLines(formatted), <<"T", "a", "b", "l", "e", ":">>) = 2

\* the i-th line of a table's block; with_columns_header says whether a
\* "Columns:" line follows the header
BlockLine(t, i, with_columns_header) ==
    LET h == IF with_columns_header THEN 1 ELSE 0
        k == Len(t.info.columns)
    IN  IF i = 1 THEN <<"T", "a", "b", "l", "e", ":", " ">> \o t.name
        ELSE IF h = 1 /\ i = 2 THEN <<"C", "o", "l", "u", "m", "n", "s", ":">>
        ELSE IF i <= 1 + h + k
             THEN <<" ", " ", "-", " ">> \o t.info.columns[i - 1 - h].name
                      \o <<" ", "(">> \o t.info.columns[i - 1 - h].type \o <<")">>
        ELSE IF i = 2 + h + k
             THEN <<"R", "o", "w", " ", "c", "o", "u", "n", "t", ":", " ">>
                      \o IntToStr(t.info.row_count)
        ELSE <<>>

Block(t, with_columns_header) ==
    [i \in 1..(Len(t.info.columns) + 3 + (IF with_columns_header THEN 1 ELSE 0)) |->
        BlockLine(t, i, with_columns_header)]

RECURSIVE Blocks(_, _)
Blocks(tables, with_columns_header) ==
    IF tables = <<>> THEN <<>>
    ELSE Block(Head(tables), with_columns_header)
             \o Blocks(Tail(tables), with_columns_header)

\* the lines of the returned string are exactly the blocks of the tables, in order
RendersAs(with_columns_header) ==
    IF TablesOf(schema) = <<>> THEN formatted = <<>>
    ELSE SplitLines(formatted) = Blocks(TablesOf(schema), with_columns_header)

\* C10 as stated: each table, in the mapping's order, is rendered as
\* "Table: <name>", a line "  - <name> (<type>)" per column in the columns'
\* order, "Row count: <n>" and a blank line, and there are no other lines.
C10_BlocksAsStated ==
    fpc = "formatted" => RendersAs(FALSE)

\* C10, amended: each table, in the mapping's order, is rendered as
\* "Table: <name>", the line "Columns:", a line "  - <name> (<type>)" per
\* column in the columns' order, "Row count: <n>" and a blank line, and there
\* are no other lines.
C10_BlocksWithColumnsHeader ==
    fpc = "formatted" => RendersAs(TRUE)

C10_Witness ==
    /\ fpc = "formatted"
    /\ Len(TablesOf(schema)) = 2
    /\ schema.tables[1].name = <<"u", "s", "e", "r", "s">>
    /\ Len(schema.tables[1].info.columns) = 2
    /\ schema.tables[1].info.columns[1].name = <<"n", "a", "m", "e">>
    /\ SplitLines(formatted)[2] = <<"C", "o", "l", "u", "m", "n", "s", ":">>
    /\ SplitLines(formatted)[3] =
         <<" ", " ", "-", " ", "n", "a", "m", "e", " ", "(">>
             \o schema.tables[1].info.columns[1].type \o <<")">>

====
